---- MODULE Spec2Model ----
(***************************************************************************)
(* A model of tslint-prettiest's "prettiest" rule (src/src/prettiestRule.ts) *)
(* The rule walks the syntax tree of one source file, reports constructors *)
(* with property parameters that share a line, and catch / finally / else  *)
(* keywords that sit on the line of the block they follow, and attaches a  *)
(* text replacement to every report.                                       *)
(*                                                                         *)
(* Source text is a sequence of one-character strings.  Offsets are        *)
(* 0-based as in TypeScript: the character at offset o is text[o + 1].     *)
(***************************************************************************)
EXTENDS Integers, Sequences, FiniteSets, TLC

VARIABLES
    text,        \* the text of the source file being linted
    tabs,        \* PrettiestWalker.tabs
    size,        \* PrettiestWalker.size
    agenda,      \* what the walker still has to do, innermost call first
    failures,    \* the walker's failures, in the order addFailureAtNode was called
    levels,      \* log of the getIndentCount calls: column, offset, result
    phase,       \* "walking" | "done" | "RangeError" | "fixed" | "indent"
    pass,        \* how many times the file has been linted
    applied      \* the failure whose fix the host applied last, and the file before it

vars == <<text, tabs, size, agenda, failures, levels, phase, pass, applied>>

----------------------------------------------------------------------------
(* Bounds of the model.                                                    *)

MaxIndent == 2       \* source lines are indented by 0..MaxIndent characters
MaxSizeOption == 2   \* the size option is absent (0) or 1..MaxSizeOption
MaxParams == 2       \* constructors have 0..MaxParams parameters
MaxPasses == 2       \* lint, apply one fix, lint again
MaxColumn == 9       \* columns of the indent-level specification

DefaultSize == 4     \* `|| 4`

----------------------------------------------------------------------------
(* Characters and text.                                                    *)

SP == " "
TAB == "\t"
NL == "\n"

WhiteSpace == {SP, TAB, NL}
Letters == {"a", "b", "c", "d", "e", "f", "h", "i", "l", "n", "o", "p",
            "r", "s", "t", "u", "v", "x", "y"}

RECURSIVE Repeat(_, _)
\* String.prototype.repeat for count >= 0 (a negative count throws RangeError,
\* which the callers model).
Repeat(s, count) == IF count <= 0 THEN <<>> ELSE s \o Repeat(s, count - 1)

RECURSIVE Concat(_)
Concat(parts) == IF parts = <<>> THEN <<>> ELSE Head(parts) \o Concat(Tail(parts))

\* The characters of text from offset from (inclusive) to offset to (exclusive).
Substring(s, from, to) == SubSeq(s, from + 1, to)

RECURSIVE CountLineBreaks(_, _)
CountLineBreaks(s, upTo) ==
    IF upTo <= 0 THEN 0
    ELSE CountLineBreaks(s, upTo - 1) + (IF s[upTo] = NL THEN 1 ELSE 0)

RECURSIVE LineStart(_, _)
\* The offset of the first character of the line that holds offset position.
LineStart(s, position) ==
    IF position <= 0 THEN 0
    ELSE IF s[position] = NL THEN position
    ELSE LineStart(s, position - 1)

\* ts.SourceFile.getLineAndCharacterOfPosition
getLineAndCharacterOfPosition(s, position) ==
    [line |-> CountLineBreaks(s, position),
     character |-> position - LineStart(s, position)]

----------------------------------------------------------------------------
(* The scanner: tokens with their leading trivia.                          *)

TRY == <<"t", "r", "y">>
CATCH == <<"c", "a", "t", "c", "h">>
FINALLY == <<"f", "i", "n", "a", "l", "l", "y">>
IFKW == <<"i", "f">>
ELSEKW == <<"e", "l", "s", "e">>
CONSTRUCTORKW == <<"c", "o", "n", "s", "t", "r", "u", "c", "t", "o", "r">>
PRIVATE == <<"p", "r", "i", "v", "a", "t", "e">>
PUBLIC == <<"p", "u", "b", "l", "i", "c">>
PROTECTED == <<"p", "r", "o", "t", "e", "c", "t", "e", "d">>

TokenKind(lexeme) ==
    CASE lexeme = TRY -> "TryKeyword"
      [] lexeme = CATCH -> "CatchKeyword"
      [] lexeme = FINALLY -> "FinallyKeyword"
      [] lexeme = IFKW -> "IfKeyword"
      [] lexeme = ELSEKW -> "ElseKeyword"
      [] lexeme = CONSTRUCTORKW -> "ConstructorKeyword"
      [] lexeme = PRIVATE -> "PrivateKeyword"
      [] lexeme = PUBLIC -> "PublicKeyword"
      [] lexeme = PROTECTED -> "ProtectedKeyword"
      [] lexeme = <<"{">> -> "OpenBraceToken"
      [] lexeme = <<"}">> -> "CloseBraceToken"
      [] lexeme = <<"(">> -> "OpenParenToken"
      [] lexeme = <<")">> -> "CloseParenToken"
      [] lexeme = <<",">> -> "CommaToken"
      [] lexeme = <<";">> -> "SemicolonToken"
      [] OTHER -> "Identifier"

RECURSIVE SkipTrivia(_, _)
SkipTrivia(s, position) ==
    IF position < Len(s) /\ s[position + 1] \in WhiteSpace
    THEN SkipTrivia(s, position + 1)
    ELSE position

RECURSIVE WordEnd(_, _)
WordEnd(s, position) ==
    IF position < Len(s) /\ s[position + 1] \in Letters
    THEN WordEnd(s, position + 1)
    ELSE position

\* A node of the tree: pos is getFullStart(), start is getStart(), end is getEnd().
Node(kind, pos, start, end, children) ==
    [kind |-> kind, pos |-> pos, start |-> start, end |-> end, children |-> children]

RECURSIVE Scan(_, _)
\* The tokens of s from offset position on, the last one the EndOfFileToken.
Scan(s, position) ==
    LET start == SkipTrivia(s, position) IN
    IF start >= Len(s)
    THEN << Node("EndOfFileToken", position, start, start, <<>>) >>
    ELSE LET end == IF s[start + 1] \in Letters THEN WordEnd(s, start) ELSE start + 1
         IN << Node(TokenKind(Substring(s, start, end)), position, start, end, <<>>) >>
            \o Scan(s, end)

----------------------------------------------------------------------------
(* The parser: the part of TypeScript's tree the rule reads.  A node's     *)
(* children are what getChildren() returns: tokens included, node arrays   *)
(* wrapped in a SyntaxList.  The grammar is total: a token that starts no  *)
(* statement is a statement of its own.                                    *)

ModifierKinds == {"PrivateKeyword", "ProtectedKeyword", "PublicKeyword"}

TokenKinds == ModifierKinds \cup
    {"TryKeyword", "CatchKeyword", "FinallyKeyword", "IfKeyword", "ElseKeyword",
     "ConstructorKeyword", "OpenBraceToken", "CloseBraceToken", "OpenParenToken",
     "CloseParenToken", "CommaToken", "SemicolonToken", "Identifier",
     "EndOfFileToken"}

\* A node over a non-empty list of children.
MakeNode(kind, children) ==
    Node(kind, children[1].pos, children[1].start, children[Len(children)].end, children)

\* A node array; an empty one sits at the end of the token before it.
SyntaxList(children, at) ==
    IF children = <<>> THEN Node("SyntaxList", at, at, at, <<>>)
    ELSE MakeNode("SyntaxList", children)

\* What parsing from token i gave: the nodes, and the token to go on from.
Nothing(i) == [nodes |-> <<>>, next |-> i]

\* Token i, whatever it is.
Take(toks, i) == [nodes |-> << toks[i] >>, next |-> i + 1]

\* Token i if it is of the kind; a missing token is left out.
Expect(toks, i, kind) == IF toks[i].kind = kind THEN Take(toks, i) ELSE Nothing(i)

OpenParen(toks, i) == Expect(toks, i, "OpenParenToken")
CloseParen(toks, i) == Expect(toks, i, "CloseParenToken")
CloseBrace(toks, i) == Expect(toks, i, "CloseBraceToken")
Identifier(toks, i) == Expect(toks, i, "Identifier")
Semicolon(toks, i) == Expect(toks, i, "SemicolonToken")

\* The nodes of two parses, the second made from where the first ended.
Join(first, rest) == [nodes |-> first.nodes \o rest.nodes, next |-> rest.next]

\* What parsed gave, and then what Parse gives from where it ended.
AndThen(toks, parsed, Parse(_, _)) == Join(parsed, Parse(toks, parsed.next))

\* One node of the kind over the nodes parsed.
Wrap(kind, parsed) == [nodes |-> << MakeNode(kind, parsed.nodes) >>, next |-> parsed.next]

\* The nodes parsed as one node array.
List(parsed, at) == [nodes |-> << SyntaxList(parsed.nodes, at) >>, next |-> parsed.next]

RECURSIVE ParseStatement(_, _)
RECURSIVE ParseStatements(_, _, _)
RECURSIVE ParseBlock(_, _)
RECURSIVE ParseTry(_, _)
RECURSIVE ParseIf(_, _)
RECURSIVE ParseConstructor(_, _)
RECURSIVE ParseParameters(_, _)

OptionalBlock(toks, i) ==
    IF toks[i].kind = "OpenBraceToken" THEN ParseBlock(toks, i) ELSE Nothing(i)

OptionalStatement(toks, i) ==
    IF toks[i].kind \in {"EndOfFileToken", "CloseBraceToken"} THEN Nothing(i)
    ELSE ParseStatement(toks, i)

BlockStatements(toks, i) == ParseStatements(toks, i, TRUE)
SourceStatements(toks, i) == ParseStatements(toks, i, FALSE)

ParseStatements(toks, i, inBlock) ==
    IF toks[i].kind = "EndOfFileToken" \/ (inBlock /\ toks[i].kind = "CloseBraceToken")
    THEN Nothing(i)
    ELSE IF inBlock THEN AndThen(toks, ParseStatement(toks, i), BlockStatements)
    ELSE AndThen(toks, ParseStatement(toks, i), SourceStatements)

\* The statements of a block as its SyntaxList child.
BlockBody(toks, i) == List(BlockStatements(toks, i), toks[i - 1].end)

ParseBlock(toks, i) ==
    Wrap("Block", AndThen(toks, AndThen(toks, Take(toks, i), BlockBody), CloseBrace))

ParseCatch(toks, i) ==
    Wrap("CatchClause",
         AndThen(toks,
             AndThen(toks,
                 AndThen(toks, AndThen(toks, Take(toks, i), OpenParen), Identifier),
                 CloseParen),
             OptionalBlock))

OptionalCatch(toks, i) ==
    IF toks[i].kind = "CatchKeyword" THEN ParseCatch(toks, i) ELSE Nothing(i)

OptionalFinally(toks, i) ==
    IF toks[i].kind = "FinallyKeyword"
    THEN AndThen(toks, Take(toks, i), OptionalBlock)
    ELSE Nothing(i)

ParseTry(toks, i) ==
    Wrap("TryStatement",
         AndThen(toks,
             AndThen(toks, AndThen(toks, Take(toks, i), OptionalBlock), OptionalCatch),
             OptionalFinally))

OptionalElse(toks, i) ==
    IF toks[i].kind = "ElseKeyword"
    THEN AndThen(toks, Take(toks, i), OptionalStatement)
    ELSE Nothing(i)

ParseIf(toks, i) ==
    Wrap("IfStatement",
         AndThen(toks,
             AndThen(toks,
                 AndThen(toks,
                     AndThen(toks, AndThen(toks, Take(toks, i), OpenParen), Identifier),
                     CloseParen),
                 OptionalStatement),
             OptionalElse))

\* The modifiers of a parameter or a constructor as a SyntaxList, when it has any.
OptionalModifiers(toks, i) ==
    IF toks[i].kind \in ModifierKinds
    THEN [nodes |-> << SyntaxList(<< toks[i] >>, toks[i].pos) >>, next |-> i + 1]
    ELSE Nothing(i)

ParseParameter(toks, i) ==
    Wrap("Parameter", AndThen(toks, OptionalModifiers(toks, i), Identifier))

MoreParameters(toks, i) ==
    IF toks[i].kind = "CommaToken"
    THEN AndThen(toks, Take(toks, i), ParseParameters)
    ELSE Nothing(i)

ParseParameters(toks, i) ==
    IF toks[i].kind \notin (ModifierKinds \cup {"Identifier"}) THEN Nothing(i)
    ELSE AndThen(toks, ParseParameter(toks, i), MoreParameters)

\* The parameters of a constructor as its SyntaxList child.
ParameterList(toks, i) == List(ParseParameters(toks, i), toks[i - 1].end)

ParseConstructor(toks, i) ==
    Wrap("Constructor",
         AndThen(toks,
             AndThen(toks,
                 AndThen(toks,
                     AndThen(toks, AndThen(toks, OptionalModifiers(toks, i), Take),
                             OpenParen),
                     ParameterList),
                 CloseParen),
             OptionalBlock))

ParseStatement(toks, i) ==
    CASE toks[i].kind = "TryKeyword" -> ParseTry(toks, i)
      [] toks[i].kind = "IfKeyword" -> ParseIf(toks, i)
      [] toks[i].kind = "OpenBraceToken" -> ParseBlock(toks, i)
      [] toks[i].kind = "ConstructorKeyword" -> ParseConstructor(toks, i)
      [] toks[i].kind \in ModifierKinds /\ toks[i + 1].kind = "ConstructorKeyword" ->
            ParseConstructor(toks, i)
      [] toks[i].kind = "Identifier" ->
            Wrap("ExpressionStatement", AndThen(toks, Take(toks, i), Semicolon))
      [] OTHER -> Take(toks, i)

\* The SourceFile over the tokens of s.
SourceFileOf(s, toks) ==
    Node("SourceFile", 0, toks[1].start, Len(s),
         List(SourceStatements(toks, 1), 0).nodes \o << toks[Len(toks)] >>)

\* ts.createSourceFile
ParseSourceFile(s) == SourceFileOf(s, Scan(s, 0))

\* The syntax tree of the file being linted (the walker's sourceFile).
root == ParseSourceFile(text)

----------------------------------------------------------------------------
(* Helpers over nodes.                                                     *)

undefined == [kind |-> "undefined"]

\* children.filter(c => c.kind in kinds).shift()
FirstOfKind(children, kinds) ==
    LET found == SelectSeq(children, LAMBDA c : c.kind \in kinds)
    IN IF found = <<>> THEN undefined ELSE found[1]

\* Array.prototype.indexOf, 1-based: 0 when the node is not in the list.
indexOf(children, node) ==
    IF \E i \in 1..Len(children) : children[i] = node
    THEN CHOOSE i \in 1..Len(children) :
            children[i] = node /\ \A j \in 1..(i - 1) : children[j] # node
    ELSE 0

RECURSIVE NodeAt(_, _)
\* The node reached from node by the child indices of path.
NodeAt(node, path) ==
    IF path = <<>> THEN node ELSE NodeAt(node.children[Head(path)], Tail(path))

\* node.getText()
getText(node) == Substring(text, node.start, node.end)

\* What a failure keeps of a node.
Place(node) == [kind |-> node.kind, pos |-> node.pos, start |-> node.start, end |-> node.end]

----------------------------------------------------------------------------
(* PrettiestWalker.                                                        *)

ControlStatementsOwnLineMessage == "ControlStatementsOwnLine"
MultilineConstructorMessage == "MultilineConstructor"

\* this.size = (this.getOptions()[2] && this.getOptions()[2]) || 4
SizeOf(sizeOption) == IF sizeOption # 0 THEN sizeOption ELSE DefaultSize

\* this.indent = this.tabs ? '\t' : ' '.repeat(this.size)
indent == IF tabs THEN << TAB >> ELSE Repeat(<< SP >>, size)

getStartPosition(node) == getLineAndCharacterOfPosition(text, node.start)

getEndPosition(node) == getLineAndCharacterOfPosition(text, node.end)

areOnSameLine(node, nextNode) ==
    getEndPosition(node).line = getStartPosition(nextNode).line

\* Math.floor in the place of Math.ceil.
Floor(a, b) == a \div b

\* Math.ceil(a / b) for b > 0
Ceil(a, b) == -((-a) \div b)

getIndentCount(node, offset) ==
    LET pos == getStartPosition(node).character - offset
    IN IF tabs THEN pos ELSE Ceil(pos, size)

\* The kinds getPreviousNode stops at.
IsPreviousKind(kind) == kind \in {"Block", "CatchClause"}

RECURSIVE ScanBack(_, _)
\* The while loop of getPreviousNode; position is 1-based.
ScanBack(children, position) ==
    IF position >= 1 /\ ~IsPreviousKind(children[position].kind)
    THEN ScanBack(children, position - 1)
    ELSE position

getPreviousNode(children, node) ==
    LET position == ScanBack(children, indexOf(children, node) - 1)
    IN IF position >= 1 THEN children[position] ELSE undefined

\* new Lint.Replacement(start, length, text)
Replacement(start, length, newText) == [start |-> start, length |-> length, text |-> newText]

\* One addFailureAtNode call, with the getIndentCount call that built its fix.
\* threw: indent.repeat(count) was given a negative count (RangeError).
\* owner is the path of the statement the handler was visiting.
Report(owner, node, message, column, offset, count, fix) ==
    [threw |-> count < 0,
     level |-> [column |-> column, offset |-> offset, level |-> count],
     failure |-> [message |-> message, node |-> Place(node), fix |-> fix, owner |-> owner]]

\* Whether a parameter carries public, protected or private.
IsProperty(p) ==
    LET modifiers == FirstOfKind(p.children, {"SyntaxList"})
    IN /\ modifiers # undefined
       /\ FirstOfKind(modifiers.children, ModifierKinds) # undefined

\* The test without its comparison of lines.
PropertySeen(hasProperties, line, previousLine) == hasProperties

\* if (hasProperties && line === previousLine)
Offends(hasProperties, line, previousLine) == hasProperties /\ line = previousLine

RECURSIVE ScanParameters(_, _, _, _)
\* The for loop of visitConstructorDeclaration from parameter i on: requiresFix.
ScanParameters(parameters, i, hasProperties, previousLine) ==
    IF i > Len(parameters) THEN FALSE
    ELSE LET has == hasProperties \/ IsProperty(parameters[i])
             line == getStartPosition(parameters[i]).line
         IN IF Offends(has, line, previousLine) THEN TRUE
            ELSE ScanParameters(parameters, i + 1, has, line)

\* Whether the regular expression /, (?!\n)/ matches at the head of s.
CommaSpaceAt(s) ==
    /\ Len(s) >= 2
    /\ s[1] = ","
    /\ s[2] = SP
    /\ (Len(s) >= 3 => s[3] # NL)

RECURSIVE ReplaceCommaSpace(_, _)
\* s.replace(/, (?!\n)/g, by)
ReplaceCommaSpace(s, by) ==
    IF s = <<>> THEN <<>>
    ELSE IF CommaSpaceAt(s) THEN by \o ReplaceCommaSpace(SubSeq(s, 3, Len(s)), by)
    ELSE << Head(s) >> \o ReplaceCommaSpace(Tail(s), by)

\* The part of visitConstructorDeclaration after super.visitConstructorDeclaration:
\* the reports it makes, in order.
checkConstructorDeclaration(owner, node) ==
    LET signature == FirstOfKind(node.children, {"SyntaxList"})
        parameters == SelectSeq(signature.children, LAMBDA c : c.kind = "Parameter")
        requiresFix == ScanParameters(parameters, 1, FALSE, getStartPosition(node).line)
        count == getIndentCount(node, 0)
        raw == << NL >> \o Repeat(indent, count + 1) \o getText(signature)
                        \o << NL >> \o Repeat(indent, count)
        fixText == ReplaceCommaSpace(raw, << ",", NL >> \o Repeat(indent, count + 1))
    IN IF signature = undefined THEN <<>>
       ELSE IF requiresFix
       THEN << Report(owner, signature, MultilineConstructorMessage,
                      getStartPosition(node).character, 0, count,
                      Replacement(signature.start, signature.end - signature.start,
                                  fixText)) >>
       ELSE <<>>

checkTryStatement(owner, tryStatement, node) ==
    LET previousNode == getPreviousNode(tryStatement.children, node)
        requiresFix == areOnSameLine(previousNode, node)
        count == getIndentCount(node, 2)
    IN IF requiresFix
       THEN << Report(owner, node, ControlStatementsOwnLineMessage,
                      getStartPosition(node).character, 2, count,
                      Replacement(node.pos, 1, << NL >> \o Repeat(indent, count))) >>
       ELSE <<>>

\* The part of visitTryStatement after super.visitTryStatement.
checkCatchAndFinally(owner, tryStatement) ==
    LET catchClause == FirstOfKind(tryStatement.children, {"CatchClause"})
        finallyBlock == FirstOfKind(tryStatement.children, {"FinallyKeyword"})
    IN (IF catchClause # undefined
        THEN checkTryStatement(owner, tryStatement, catchClause) ELSE <<>>)
       \o
       (IF finallyBlock # undefined
        THEN checkTryStatement(owner, tryStatement, finallyBlock) ELSE <<>>)

\* The guard without its test for a block: any child at all.
HasAnyChild(ifStatement) == ifStatement.children # <<>>

\* ifStatement.getChildren().some(ch => ch.kind === ts.SyntaxKind.Block)
HasBlockChild(ifStatement) ==
    \E i \in 1..Len(ifStatement.children) : ifStatement.children[i].kind = "Block"

\* The part of visitIfStatement after super.visitIfStatement.
checkIfStatement(owner, ifStatement) ==
    LET elseKeyword == FirstOfKind(ifStatement.children, {"ElseKeyword"})
        previousNode ==
            ifStatement.children[indexOf(ifStatement.children, elseKeyword) - 1]
        requiresFix == areOnSameLine(previousNode, elseKeyword)
        count == getIndentCount(elseKeyword, 2)
    IN IF elseKeyword = undefined THEN <<>>
       ELSE IF ~HasBlockChild(ifStatement) THEN <<>>
       ELSE IF requiresFix
       THEN << Report(owner, elseKeyword, ControlStatementsOwnLineMessage,
                      getStartPosition(elseKeyword).character, 2, count,
                      Replacement(elseKeyword.pos, 1,
                                  << NL >> \o Repeat(indent, count))) >>
       ELSE <<>>

----------------------------------------------------------------------------
(* The walk.  tslint's SyntaxWalker visits a node by calling the handler   *)
(* of its kind; a handler the rule does not override only walks the        *)
(* node's children, so those nodes are walked through in one step.         *)

Overridden == {"Constructor", "TryStatement", "IfStatement"}

\* A pending call: the handler of the node at path is to be entered ("visit"),
\* or has walked the node's children and is to do its own check ("check").
Visit(node, path) == [op |-> "visit", kind |-> node.kind, path |-> path]
Check(node, path) == [op |-> "check", kind |-> node.kind, path |-> path]

RECURSIVE VisitsOf(_, _)
RECURSIVE walkChildren(_, _)

\* visitNode(node): the visits of overridden handlers it leads to, in order.
VisitsOf(node, path) ==
    IF node.kind \in Overridden THEN << Visit(node, path) >> ELSE walkChildren(node, path)

walkChildren(node, path) ==
    Concat([i \in 1..Len(node.children) |->
                VisitsOf(node.children[i], Append(path, i))])

\* A handler that checks before it calls super.visitX(node).
CheckThenWalk(node, path) == << Check(node, path) >> \o walkChildren(node, path)

\* The body of an overridden handler: super.visitX(node) first, then its own check.
HandlerTasks(node, path) == walkChildren(node, path) \o << Check(node, path) >>

RECURSIVE Run(_, _)
\* The reports of one handler taken in order, up to the first that throws.
Run(st, reports) ==
    IF reports = <<>> \/ st.threw THEN st
    ELSE Run([failures |-> IF Head(reports).threw THEN st.failures
                           ELSE Append(st.failures, Head(reports).failure),
              levels |-> st.levels \cup {Head(reports).level},
              threw |-> Head(reports).threw],
             Tail(reports))

Emit(reports) ==
    LET st == Run([failures |-> failures, levels |-> levels, threw |-> FALSE], reports)
    IN /\ failures' = st.failures
       /\ levels' = st.levels
       /\ phase' = IF st.threw THEN "RangeError" ELSE phase
       /\ agenda' = IF st.threw THEN <<>> ELSE Tail(agenda)
       /\ UNCHANGED <<text, tabs, size, pass, applied>>

\* The node the pending call was made with.
Current == NodeAt(root, Head(agenda).path)

Walking == phase = "walking" /\ agenda # <<>>

\* Entering visitConstructorDeclaration, visitTryStatement or visitIfStatement.
visitNode ==
    /\ Walking
    /\ Head(agenda).op = "visit"
    /\ \E node \in {Current} :
          agenda' = HandlerTasks(node, Head(agenda).path) \o Tail(agenda)
    /\ UNCHANGED <<text, tabs, size, failures, levels, phase, pass, applied>>

visitConstructorDeclaration ==
    /\ Walking
    /\ Head(agenda).op = "check"
    /\ Head(agenda).kind = "Constructor"
    /\ \E node \in {Current} : Emit(checkConstructorDeclaration(Head(agenda).path, node))

visitTryStatement ==
    /\ Walking
    /\ Head(agenda).op = "check"
    /\ Head(agenda).kind = "TryStatement"
    /\ \E node \in {Current} : Emit(checkCatchAndFinally(Head(agenda).path, node))

visitIfStatement ==
    /\ Walking
    /\ Head(agenda).op = "check"
    /\ Head(agenda).kind = "IfStatement"
    /\ \E node \in {Current} : Emit(checkIfStatement(Head(agenda).path, node))

\* Rule.apply returns the walker's failures.
apply ==
    /\ phase = "walking"
    /\ agenda = <<>>
    /\ phase' = "done"
    /\ UNCHANGED <<text, tabs, size, agenda, failures, levels, pass, applied>>

\* Replacement.apply
ApplyReplacement(content, fix) ==
    Substring(content, 0, fix.start) \o fix.text
        \o Substring(content, fix.start + fix.length, Len(content))

\* The host applies the fix of one of the failures to the file.
applyFix ==
    /\ phase = "done"
    /\ pass < MaxPasses
    /\ \E i \in 1..Len(failures) :
          /\ text' = ApplyReplacement(text, failures[i].fix)
          /\ applied' = Append(applied, [failure |-> failures[i], before |-> text])
    /\ phase' = "fixed"
    /\ UNCHANGED <<tabs, size, agenda, failures, levels, pass>>

\* The host lints the fixed file: a new walker on the new tree.
lintAgain ==
    /\ phase = "fixed"
    /\ phase' = "walking"
    /\ agenda' = VisitsOf(root, <<>>)
    /\ failures' = <<>>
    /\ levels' = {}
    /\ pass' = pass + 1
    /\ UNCHANGED <<text, tabs, size, applied>>

----------------------------------------------------------------------------
(* The source files the walker is started on.                              *)

IndentStrings == {Repeat(<< SP >>, n) : n \in 0..MaxIndent} \cup {<< TAB >>}

\* What may stand between a closing brace and the keyword after it.
Gaps(ind) == {<<>>, << SP >>, << SP, SP >>, << NL >> \o ind}

BlockText(ind, multi, body) ==
    IF multi
    THEN << "{", NL >> \o ind \o << SP >> \o body \o << NL >> \o ind \o << "}" >>
    ELSE << "{", SP >> \o body \o << SP, "}" >>

TryText(ind, multi, body, gap1, hasCatch, catchBody, gap2, hasFinally) ==
    TRY \o << SP >> \o BlockText(ind, multi, body)
        \o (IF hasCatch
            THEN gap1 \o CATCH \o << SP, "(", "e", ")", SP >>
                      \o BlockText(ind, FALSE, catchBody)
            ELSE <<>>)
        \o (IF hasFinally
            THEN gap2 \o FINALLY \o << SP >> \o BlockText(ind, FALSE, << "c", ";" >>)
            ELSE <<>>)

IfText(cond, thenText, hasElse, gap, elseText) ==
    IFKW \o << SP, "(", cond, ")", SP >> \o thenText
         \o (IF hasElse THEN gap \o ELSEKW \o << SP >> \o elseText ELSE <<>>)

ParameterText(isProperty) ==
    IF isProperty THEN PRIVATE \o << SP, "b" >> ELSE << "a" >>

RECURSIVE ParametersText(_, _)
\* The parameters, with separator between them.
ParametersText(params, separator) ==
    IF params = <<>> THEN <<>>
    ELSE IF Len(params) = 1 THEN ParameterText(params[1])
    ELSE ParameterText(params[1]) \o separator \o ParametersText(Tail(params), separator)

ConstructorText(lead, params, separator, body) ==
    CONSTRUCTORKW \o << "(" >>
        \o (IF params = <<>> THEN <<>> ELSE lead \o ParametersText(params, separator))
        \o << ")", SP >> \o body

Separators(ind) == {<< ",", SP >>, << "," >>, << ",", NL >> \o ind \o << SP >>}

Leads(ind) == {<<>>, << NL >> \o ind \o << SP >>}

StatementA == << "a", ";" >>
StatementB == << "b", ";" >>

TrySources ==
    {ind \o TryText(ind, multi, StatementA, gap1, shape[1], StatementB, gap2, shape[2]) :
        ind \in IndentStrings, multi \in BOOLEAN,
        gap1 \in Gaps(<<>>) \cup {<< NL, SP >>, << NL, TAB >>},
        gap2 \in Gaps(<<>>),
        shape \in {<< TRUE, FALSE >>, << FALSE, TRUE >>, << TRUE, TRUE >>}}

ThenTexts(ind) ==
    {BlockText(ind, FALSE, StatementA), BlockText(ind, TRUE, StatementA), StatementA}

ElseTexts ==
    {BlockText(<<>>, FALSE, StatementB), StatementB,
     IfText("y", BlockText(<<>>, FALSE, StatementB), FALSE, <<>>, <<>>)}

IfSources ==
    UNION {{ind \o IfText("x", thenText, hasElse, gap, elseText) :
                thenText \in ThenTexts(ind), hasElse \in BOOLEAN,
                gap \in Gaps(ind), elseText \in ElseTexts} :
           ind \in IndentStrings}

ConstructorSources ==
    UNION {UNION {{ind \o ConstructorText(lead, params, separator, << "{", "}" >>) :
                        lead \in Leads(ind),
                        separator \in Separators(ind),
                        params \in [1..n -> BOOLEAN]} :
                  n \in 0..MaxParams} :
           ind \in IndentStrings}

NestedSources ==
    {IfText("x",
            BlockText(<<>>, FALSE,
                      TryText(<<>>, FALSE, StatementA, gap1, TRUE, StatementB, <<>>, FALSE)),
            TRUE, gap2, BlockText(<<>>, FALSE, << "c", ";" >>)) :
        gap1 \in {<< SP >>, << NL >>}, gap2 \in {<< SP >>, << NL >>}}
    \cup
    {ConstructorText(<<>>, << FALSE, property >>, << ",", SP >>,
                     BlockText(<<>>, FALSE,
                               IfText("x", BlockText(<<>>, FALSE, StatementA), TRUE, gap,
                                      BlockText(<<>>, FALSE, StatementB)))) :
        property \in BOOLEAN, gap \in {<< SP >>, << NL >>}}
    \cup
    {TryText(<<>>, FALSE, StatementA, gap1, TRUE,
             IfText("x", BlockText(<<>>, FALSE, StatementA), TRUE, gap2, StatementB),
             gap1, TRUE)
        \o << NL >>
        \o IfText("y", BlockText(<<>>, FALSE, StatementB), TRUE, gap2,
                  BlockText(<<>>, FALSE, << "c", ";" >>)) :
        gap1 \in {<< SP >>, << NL >>}, gap2 \in {<< SP >>, << NL >>}}

Sources == TrySources \cup IfSources \cup ConstructorSources \cup NestedSources

----------------------------------------------------------------------------
(* The specification: one file linted, one fix applied, the file linted    *)
(* again.                                                                  *)

Init ==
    /\ text \in Sources
    /\ tabs \in BOOLEAN
    /\ \E sizeOption \in 0..MaxSizeOption : size = SizeOf(sizeOption)
    /\ agenda = VisitsOf(root, <<>>)
    /\ failures = <<>>
    /\ levels = {}
    /\ phase = "walking"
    /\ pass = 1
    /\ applied = <<>>

Next ==
    \/ visitNode
    \/ visitConstructorDeclaration
    \/ visitTryStatement
    \/ visitIfStatement
    \/ apply
    \/ applyFix
    \/ lintAgain

Spec == Init /\ [][Next]_vars

----------------------------------------------------------------------------
(* The indent-level computation on its own: a token at every column,       *)
(* measured with the offsets the rule uses.                                *)

InitIndent ==
    /\ \E column \in 0..MaxColumn : text = Repeat(<< SP >>, column) \o StatementA
    /\ tabs \in BOOLEAN
    /\ \E sizeOption \in 0..MaxSizeOption : size = SizeOf(sizeOption)
    /\ agenda = <<>>
    /\ failures = <<>>
    /\ levels = {}
    /\ phase = "indent"
    /\ pass = 0
    /\ applied = <<>>

measureIndent ==
    /\ phase = "indent"
    /\ \E offset \in {0, 2} :
          LET node == NodeAt(root, << 1, 1 >>)
          IN levels' = levels \cup {[column |-> getStartPosition(node).character,
                                     offset |-> offset,
                                     level |-> getIndentCount(node, offset)]}
    /\ UNCHANGED <<text, tabs, size, agenda, failures, phase, pass, applied>>

NextIndent == measureIndent

SpecIndent == InitIndent /\ [][NextIndent]_vars

----------------------------------------------------------------------------
(* What the properties are stated in: lines, columns and indentation read  *)
(* off the text, statements found in the tree, reports found in the list.  *)

LineOf(s, offset) == Cardinality({i \in 1..offset : s[i] = NL})

ColumnOf(s, offset) ==
    LET breaks == {i \in 1..offset : s[i] = NL}
    IN IF breaks = {} THEN offset
       ELSE offset - (CHOOSE i \in breaks : \A j \in breaks : j <= i)

\* The characters of the line of offset that stand before it.
LinePrefix(s, offset) == Substring(s, offset - ColumnOf(s, offset), offset)

\* The least n with n * unit >= amount.
CeilingOf(amount, unit) ==
    CHOOSE n \in (IF amount < 0 THEN amount ELSE 0)..(IF amount > 0 THEN amount ELSE 0) :
        n * unit >= amount /\ (n - 1) * unit < amount

\* The indent level of a column under the configuration.
LevelOf(column) == IF tabs THEN column ELSE CeilingOf(column, size)

\* level indent units
Indentation(level) ==
    IF tabs THEN [i \in 1..level |-> TAB] ELSE [i \in 1..(level * size) |-> SP]

RECURSIVE PathsOf(_, _)
PathsOf(node, path) ==
    {path} \cup UNION {PathsOf(node.children[i], Append(path, i)) :
                            i \in 1..Len(node.children)}

\* The paths of the nodes of a kind in a tree.
NodesOfKind(tree, kind) == {p \in PathsOf(tree, <<>>) : NodeAt(tree, p).kind = kind}

ChildrenOfKind(node, kinds) == {i \in 1..Len(node.children) : node.children[i].kind \in kinds}

\* The walker is working on, or has returned from, the tree in root.
Linting == phase \in {"walking", "done", "RangeError"}

\* The walk has ended: Rule.apply returned, or threw.
Ended == phase \in {"done", "RangeError"}

ReportsOf(owner) == {i \in 1..Len(failures) : failures[i].owner = owner}

ReportedAt(owner, node) ==
    \E i \in ReportsOf(owner) : failures[i].node = Place(node)

IsPrefix(p, q) == Len(p) <= Len(q) /\ SubSeq(q, 1, Len(p)) = p

FirstDifference(p, q) ==
    CHOOSE k \in 1..Len(p) : p[k] # q[k] /\ \A j \in 1..(k - 1) : p[j] = q[j]

\* p is visited before q in a pre-order, source-order walk.
PreOrderBefore(p, q) ==
    /\ p # q
    /\ \/ IsPrefix(p, q)
       \/ ~IsPrefix(q, p) /\ p[FirstDifference(p, q)] < q[FirstDifference(p, q)]

\* p is left before q in a source-order walk (post-order).
PostOrderBefore(p, q) ==
    /\ p # q
    /\ \/ IsPrefix(q, p)
       \/ ~IsPrefix(p, q) /\ p[FirstDifference(p, q)] < q[FirstDifference(p, q)]

LastApplied == applied[Len(applied)]

----------------------------------------------------------------------------
(* C1 *)

\* The nearest child of the try statement before child i that is a block or a
\* catch clause.
NearestBlockBefore(try, i) ==
    LET before == {j \in 1..(i - 1) : try.children[j].kind \in {"Block", "CatchClause"}}
    IN try.children[CHOOSE j \in before : \A k \in before : k <= j]

\* Every catch clause and finally keyword of every try statement is reported
\* exactly when its previous node ends on the line it starts on.
ReportedIffSameLine ==
    LET tree == root IN
    \A p \in NodesOfKind(tree, "TryStatement") :
        LET try == NodeAt(tree, p) IN
        \A i \in ChildrenOfKind(try, {"CatchClause", "FinallyKeyword"}) :
            ReportedAt(p, try.children[i])
                <=> (LineOf(text, NearestBlockBefore(try, i).end)
                        = LineOf(text, try.children[i].start))

\* C1: when the walk of a file has ended, every catch clause and every finally
\* keyword of every try statement has a control-statement violation if and only
\* if the end of its previous node (the nearest block or catch clause before it
\* among the try statement's children) is on the line the target starts on.
C1_ViolationIffSameLine == Ended => ReportedIffSameLine

\* The same for the walks that returned without throwing.
C1_WhenReturned == phase = "done" => ReportedIffSameLine

----------------------------------------------------------------------------
(* C9 *)

ControlReports ==
    {i \in 1..Len(failures) : failures[i].message = ControlStatementsOwnLineMessage}

\* C9: every fix made for a catch clause, a finally keyword or an else keyword
\* removes exactly one character, the whitespace character standing immediately
\* before the keyword's own start.
C9_FixRemovesTheWhitespaceBeforeTheKeyword ==
    Linting =>
        \A i \in ControlReports :
            /\ failures[i].fix.length = 1
            /\ failures[i].fix.start = failures[i].node.start - 1
            /\ text[failures[i].fix.start + 1] \in WhiteSpace

----------------------------------------------------------------------------
(* C10 *)

\* C10: every indent level computed while building a fix is a non-negative
\* integer, so the indentation string can be built.
C10_IndentLevelsAreNonNegative ==
    /\ phase # "RangeError"
    /\ \A e \in levels : e.level \in Nat

----------------------------------------------------------------------------
(* C2 *)

\* The host has just applied the fix of a failure of this kind of node.
JustFixed(kind) == phase = "fixed" /\ LastApplied.failure.node.kind = kind

\* The block of a try statement (its second child).
TryBlock(try) == try.children[CHOOSE i \in ChildrenOfKind(try, {"Block"}) :
                                \A j \in ChildrenOfKind(try, {"Block"}) : i <= j]

\* Every catch clause that starts on the line its try block ends on is reported.
SameLineCatchReported ==
    LET tree == root IN
    \A p \in NodesOfKind(tree, "TryStatement") :
        LET try == NodeAt(tree, p) IN
        \A i \in ChildrenOfKind(try, {"CatchClause"}) :
            LineOf(text, TryBlock(try).end) = LineOf(text, try.children[i].start)
                => ReportedAt(p, try.children[i])

\* In the fixed text the try statement still has its catch clause, and `catch`
\* is the first thing on a line of its own, indented to the try statement's level.
CatchOnOwnLineAtTryLevel ==
    LET tree == root
        p == LastApplied.failure.owner
    IN /\ p \in NodesOfKind(tree, "TryStatement")
       /\ \E i \in ChildrenOfKind(NodeAt(tree, p), {"CatchClause"}) :
             LET try == NodeAt(tree, p)
                 catch == try.children[i]
             IN /\ LineOf(text, catch.start) > LineOf(text, TryBlock(try).end)
                /\ LinePrefix(text, catch.start)
                      = Indentation(LevelOf(ColumnOf(text, try.start)))

\* C2: a catch clause that starts on the line of the closing brace of the block
\* before it is reported, and applying the fix of that report puts `catch` at the
\* start of a new line indented to the try statement's own indent level.
C2_SameLineCatchMovedToTryLevel ==
    /\ phase = "done" => SameLineCatchReported
    /\ JustFixed("CatchClause") => CatchOnOwnLineAtTryLevel

----------------------------------------------------------------------------
(* C3 *)

ElseOf(if) == CHOOSE i \in ChildrenOfKind(if, {"ElseKeyword"}) : TRUE

\* C3 as stated: an if statement with an else whose consequent is not a braced
\* block is never reported, whatever its else branch is.
C3_UnbracedConsequentNeverReported ==
    Linting =>
        LET tree == root IN
        \A p \in NodesOfKind(tree, "IfStatement") :
            LET if == NodeAt(tree, p) IN
            (/\ ChildrenOfKind(if, {"ElseKeyword"}) # {}
             /\ if.children[ElseOf(if) - 1].kind # "Block")
                => ReportsOf(p) = {}

\* C3 as the code has it: an if statement with an else none of whose children
\* (consequent, else branch) is a braced block is never reported, wherever the
\* else stands; a reported else stands on the line its consequent ends on, in an
\* if statement whose consequent or else branch is a braced block.
C3_NoBracedBranchNeverReported ==
    Linting =>
        LET tree == root IN
        \A p \in NodesOfKind(tree, "IfStatement") :
            LET if == NodeAt(tree, p) IN
            /\ (ChildrenOfKind(if, {"ElseKeyword"}) # {} /\ ChildrenOfKind(if, {"Block"}) = {})
                  => ReportsOf(p) = {}
            /\ ReportsOf(p) # {}
                  => /\ ChildrenOfKind(if, {"ElseKeyword"}) # {}
                     /\ ChildrenOfKind(if, {"Block"}) # {}
                     /\ LineOf(text, if.children[ElseOf(if) - 1].end)
                           = LineOf(text, if.children[ElseOf(if)].start)

\* An if statement without braces whose else stands on the line of the
\* consequent has been checked, and nothing was reported.
C3_Witness ==
    /\ phase = "done"
    /\ failures = <<>>
    /\ LET tree == root IN
       \E p \in NodesOfKind(tree, "IfStatement") :
            LET if == NodeAt(tree, p) IN
            /\ ChildrenOfKind(if, {"ElseKeyword"}) # {}
            /\ ChildrenOfKind(if, {"Block"}) = {}
            /\ LineOf(text, if.children[ElseOf(if) - 1].end)
                  = LineOf(text, if.children[ElseOf(if)].start)

----------------------------------------------------------------------------
(* C4 *)

\* The parameters of a constructor: the Parameter nodes of its last SyntaxList
\* child (the first one is the modifier list when the constructor has modifiers).
ParametersOf(ctor) ==
    LET lists == ChildrenOfKind(ctor, {"SyntaxList"})
        list == ctor.children[CHOOSE i \in lists : \A j \in lists : j <= i]
    IN SelectSeq(list.children, LAMBDA c : c.kind = "Parameter")

\* A parameter with a visibility modifier: one that starts with the keyword.
DeclaresProperty(s, parameter) ==
    \E keyword \in {PRIVATE, PUBLIC, PROTECTED} :
        /\ parameter.end - parameter.start > Len(keyword)
        /\ Substring(s, parameter.start, parameter.start + Len(keyword)) = keyword
        /\ s[parameter.start + Len(keyword) + 1] \in WhiteSpace

PropertyCount(s, parameters) ==
    Cardinality({i \in 1..Len(parameters) : DeclaresProperty(s, parameters[i])})

OnDistinctLines(s, parameters) ==
    \A i, j \in 1..Len(parameters) :
        i # j => LineOf(s, parameters[i].start) # LineOf(s, parameters[j].start)

\* The first parameter declares a property and starts on the line the
\* constructor starts on.
FirstIsPropertyOnConstructorLine(s, ctor) ==
    LET parameters == ParametersOf(ctor) IN
    /\ parameters # <<>>
    /\ DeclaresProperty(s, parameters[1])
    /\ LineOf(s, parameters[1].start) = LineOf(s, ctor.start)

----------------------------------------------------------------------------
(* C5 *)

OnOneLine(s, node) == LineOf(s, node.start) = LineOf(s, node.end)

\* Some property parameter comes after a parameter that declares no property.
PlainBeforeProperty(s, parameters) ==
    \E i, j \in 1..Len(parameters) :
        /\ i < j
        /\ ~DeclaresProperty(s, parameters[i])
        /\ DeclaresProperty(s, parameters[j])

\* A constructor on one line with a property parameter after a plain one.
OneLineMixedConstructor(s, ctor) ==
    /\ ctor.kind = "Constructor"
    /\ OnOneLine(s, ctor)
    /\ PlainBeforeProperty(s, ParametersOf(ctor))

\* Every such constructor has exactly one report.
MixedConstructorReportedOnce ==
    LET tree == root IN
    \A p \in NodesOfKind(tree, "Constructor") :
        OneLineMixedConstructor(text, NodeAt(tree, p)) => Cardinality(ReportsOf(p)) = 1

\* In the fixed text every parameter of the constructor is the first thing on its
\* line, one indent unit deeper than the constructor, and the closing parenthesis
\* is the first thing on its line, at the constructor's level.
ParametersOnOwnLines ==
    LET tree == root
        ctor == NodeAt(tree, LastApplied.failure.owner)
        parameters == ParametersOf(ctor)
        level == LevelOf(ColumnOf(text, ctor.start))
    IN /\ \A i \in 1..Len(parameters) :
             LinePrefix(text, parameters[i].start) = Indentation(level + 1)
       /\ \A i \in ChildrenOfKind(ctor, {"CloseParenToken"}) :
             LinePrefix(text, ctor.children[i].start) = Indentation(level)

\* C5: a constructor written on one line in which a property parameter follows a
\* plain parameter gets exactly one violation, and applying its fix puts every
\* parameter on a line of its own, one indent unit deeper than the constructor,
\* and the closing parenthesis on its own line at the constructor's level.
C5_OneLineConstructorSplit ==
    /\ phase = "done" => MixedConstructorReportedOnce
    /\ (/\ JustFixed("SyntaxList")
        /\ OneLineMixedConstructor(LastApplied.before,
                NodeAt(ParseSourceFile(LastApplied.before), LastApplied.failure.owner)))
          => ParametersOnOwnLines

----------------------------------------------------------------------------
(* C6 *)

\* C6: when the file obtained by applying the fix of a failure has been linted
\* again, the construct of that failure (the parameter list, the catch clause, the
\* finally keyword or the else keyword of the same statement) has no failure of
\* the same kind.
C6_FixIsIdempotent ==
    (phase = "done" /\ applied # <<>>) =>
        \A i \in ReportsOf(LastApplied.failure.owner) :
            \/ failures[i].message # LastApplied.failure.message
            \/ failures[i].node.kind # LastApplied.failure.node.kind

----------------------------------------------------------------------------
(* C7 *)

\* C7: the indent level of a token is its column less the offset when tabs are
\* configured, and otherwise the least integer that, times the indent size, is at
\* least the column less the offset; indent size 4, column 9, offset 0 give 3,
\* and tabs, column 3, offset 2 give 1.
C7_IndentLevel ==
    phase = "indent" =>
        \A e \in levels :
            /\ e.column = Len(text) - Len(StatementA)
            /\ tabs => e.level = e.column - e.offset
            /\ ~tabs => e.level = CeilingOf(e.column - e.offset, size)
            /\ (~tabs /\ size = 4 /\ e.column = 9 /\ e.offset = 0) => e.level = 3
            /\ (tabs /\ e.column = 3 /\ e.offset = 2) => e.level = 1

\* The level of column 9 has been computed with indent size 4 and offset 0, and
\* that of a column below the offset with offset 2.
C7_Witness ==
    /\ phase = "indent"
    /\ ~tabs
    /\ size = 4
    /\ [column |-> 9, offset |-> 0, level |-> 3] \in levels
    /\ \E e \in levels : e.offset = 2

----------------------------------------------------------------------------
(* C8 *)

\* C8 as stated: the failures are in the order a pre-order, source-order walk
\* visits their statements, nested statements included.
C8_FailuresInPreOrder ==
    Linting =>
        \A i, j \in 1..Len(failures) :
            i < j => \/ failures[i].owner = failures[j].owner
                     \/ PreOrderBefore(failures[i].owner, failures[j].owner)

\* C8 as the code has it: every handler walks the children of its statement
\* before it checks the statement, so the failures are in the order a
\* source-order walk leaves their statements (post-order): a nested statement's
\* failures come before those of the statement around it, and the two of one
\* try statement in source order.
C8_FailuresInPostOrder ==
    Linting =>
        \A i, j \in 1..Len(failures) :
            i < j => \/ /\ failures[i].owner = failures[j].owner
                        /\ failures[i].node.start < failures[j].node.start
                     \/ PostOrderBefore(failures[i].owner, failures[j].owner)

\* Rule.apply has returned a failure of a statement after one of a statement
\* nested in it.
C8_Witness ==
    /\ phase = "done"
    /\ \E i, j \in 1..Len(failures) :
          /\ i < j
          /\ failures[i].owner # failures[j].owner
          /\ IsPrefix(failures[j].owner, failures[i].owner)

====
